---- MODULE Spec2Model ----
(***************************************************************************)
(* MoonDock: the Docker event watcher (moondock/events/watcher.py) and the *)
(* event parser (moondock/events/parser.py).                               *)
(*                                                                         *)
(* One DockerEventWatcher instance is modelled.  Each activation of _run   *)
(* (a background Thread, or a start_forever call running _run on the       *)
(* caller's thread) is a "loop" of the pool Loops.  The API methods are    *)
(* called by the threads of Callers; statements of start_in_background are *)
(* separate steps, because other threads can run between them.             *)
(***************************************************************************)
EXTENDS Integers, Sequences, FiniteSets, TLC

\* ---- bounds of the model ------------------------------------------------
MaxLoops == 2        \* activations of _run over the life of the watcher
NumCallers == 2      \* threads calling the watcher's methods
MaxFailures == 5     \* errors the running loops count since their last successful open
MaxEvents == 2       \* items the open streams have yielded
MaxStreak == 3       \* read errors in a row that the model tells apart
MaxLate == 2         \* calls begun with the flag set that the model tells apart
MaxClosures == 4     \* streams the running loops have seen end without an error, in a row

\* ---- configuration (DockerEventWatcher.__init__) ------------------------
\* the configuration of tests/test_watcher_basic.py
TestConfig == [initial_backoff |-> 1, backoff_factor |-> 2, max_backoff |-> 5]
TestMaxRetries == 3
NoLimit == -1                        \* max_retries=None
RetryCeilings == {NoLimit, TestMaxRetries}

Loops == 1..MaxLoops
Callers == 1..NumCallers
NoWorker == 0                        \* self._worker is None

ErrorKinds == {"recoverable", "unclassified"}

VARIABLES
    max_retries,   \* self.max_retries
    starts_left,   \* activations of _run the run may still create
    stop_event,    \* self._stop_event
    worker,        \* self._worker: NoWorker or the Thread (loop) it refers to
    pc,            \* where each activation of _run is
    owner,         \* the caller whose thread runs the loop (0: a Thread)
    retries,       \* local of _run
    backoff,       \* local of _run
    yielded,       \* items the loop's current stream has yielded
    handled,       \* index of the last item passed to the callback
    raisedAt,      \* index of the last item whose callback raised (0: none)
    reason,        \* why the loop left the while loop
    hRec,          \* recoverable errors since the loop's last successful open
    hUnc,          \* unclassified errors since the loop's last successful open
    restarted,     \* the loop was started when every earlier loop had ended
    cpc,           \* where each caller is
    jt,            \* the Thread a caller in stop() joins
    raw_event,     \* the argument of a call of parse_event
    parsed,        \* what that call did: Pending until it is made
    closed,        \* streams of the loop that ended without an error, in a row
    cbpc,          \* where docker_event_callback is: "idle", "parse" or "send"
    delivered,     \* calls of send_event made for the item in hand
    sinkFailedAt,  \* index of the last item of the stream whose send_event failed
    config,        \* self.initial_backoff, self.backoff_factor, self.max_backoff
    streak,        \* recoverable read errors of a loop all of whose opens succeeded
    late           \* calls a loop began with the flag already set: opens, handlers

vars == <<max_retries, starts_left, stop_event, worker, pc, owner, retries, backoff, yielded,
          handled, raisedAt, reason, hRec, hUnc, restarted, cpc, jt,
          raw_event, parsed, closed, cbpc, delivered, sinkFailedAt,
          config, streak, late>>

watcherVars == <<max_retries, starts_left, stop_event, worker, pc, owner, retries,
                 backoff, yielded, handled, raisedAt, reason, hRec, hUnc,
                 restarted, cpc, jt>>
parserVars == <<raw_event, parsed>>
historyVars == <<closed>>
pipelineVars == <<cbpc, delivered, sinkFailedAt>>
configVars == <<config>>
streakVars == <<streak>>
lateVars == <<late>>

\* lines 34-36
initial_backoff == config.initial_backoff
backoff_factor == config.backoff_factor
max_backoff == config.max_backoff

loopVars == <<pc, owner, retries, backoff, yielded, handled, raisedAt, reason,
              hRec, hUnc, restarted>>
streamVars == <<yielded, handled, raisedAt>>
callerVars == <<cpc, jt>>

Min(a, b) == IF a <= b THEN a ELSE b

RECURSIVE Sum(_, _)
Sum(f, S) == IF S = {} THEN 0
             ELSE LET x == CHOOSE y \in S : TRUE IN f[x] + Sum(f, S \ {x})

\* ---- pieces of _run -----------------------------------------------------

\* the loop condition without the test of the flag
WhileCondition_IgnoresFlag(flag) == TRUE

\* line 84: while not self._stop_event.is_set()
WhileCondition(flag) == ~flag

\* the try statement without its second clause, except Exception
Catch_RecoverableOnly(kind) ==
    IF kind = "recoverable" THEN "except_recoverable" ELSE "uncaught"

\* lines 111, 129: which except clause catches an error raised in the try
Catch(kind) ==
    IF kind = "recoverable" THEN "except_recoverable"
    ELSE IF kind = "unclassified" THEN "except_exception"
    ELSE "uncaught"

\* the ceiling test with >= for >
CeilingExceeded_AtCeiling(r, mr) == mr # NoLimit /\ r >= mr

\* line 115: self.max_retries is not None and retries > self.max_retries
CeilingExceeded(r, mr) == mr # NoLimit /\ r > mr

\* the escalation without the cap
NextBackoff_Uncapped(b) == b * backoff_factor

\* the cap applied before the multiplication
NextBackoff_CapFirst(b) == Min(b, max_backoff) * backoff_factor

\* lines 127, 132: backoff = min(backoff * self.backoff_factor, self.max_backoff)
NextBackoff(b) == Min(b * backoff_factor, max_backoff)

\* the escalation made after the sleep for a closed stream too
BackoffAfterSleep_AlwaysEscalates(where, b) == NextBackoff(b)

\* lines 109, 126-127, 131-132: the backoff after a sleep: escalated after an
\* error, unchanged after a stream that closed without one
BackoffAfterSleep(where, b) ==
    IF where = "sleep_closed" THEN b ELSE NextBackoff(b)

\* the successful open that leaves the retry counter as it is
RetriesAfterOpen_Kept(r) == r

\* line 90: retries = 0
RetriesAfterOpen(r) == 0

\* the callback's exception handled by the outer except clause
AfterCallback_RaiseEndsStream(outcome) ==
    IF outcome = "raised" THEN "sleep_unexpected" ELSE "next"

\* lines 98-101: where the loop continues after the callback returned or raised
AfterCallback(outcome) == "next"

\* the for loop without its test of the flag
OnItem_IgnoresFlag(flag) == "callback"

\* lines 94-96, 103-104: where the loop goes for an item the stream yielded
OnItem(flag) == IF flag THEN "done" ELSE "callback"

\* a loop left on the flag: at line 84 or 103-104 ("flag"), or at lines 94-96
\* with an item of the stream in hand ("flag_item")
FlagReasons == {"flag", "flag_item"}

Alive(l) == pc[l] \notin {"unborn", "created", "done", "raised"}
Running == {l \in Loops : Alive(l)}
Sleeping(l) == pc[l] \in {"sleep_closed", "sleep_error", "sleep_unexpected"}
Unborn == {l \in Loops : pc[l] = "unborn"}
Fresh == CHOOSE l \in Unborn : \A m \in Unborn : l <= m
Started == {l \in Loops : pc[l] \notin {"unborn", "created"}}
AllEnded == Started # {} /\ \A l \in Started : pc[l] \in {"done", "raised"}

\* a caller inside start_forever is blocked until its loop ends
Busy(c) == \E l \in Loops : owner[l] = c /\ Alive(l)
Free(c) == cpc[c] \in {"idle", "timed_out"} /\ ~Busy(c)

\* ==== moondock/events/parser.py ==========================================
\* A Python value is a record [t |-> type, v |-> payload]: a str holds the
\* sequence of its characters, a number its value, a dict the function from
\* the keys present to their values, a list its length.

None == [t |-> "none", v |-> 0]
Str(s) == [t |-> "str", v |-> s]
Num(n) == [t |-> "num", v |-> n]
Dict(f) == [t |-> "dict", v |-> f]
List(n) == [t |-> "list", v |-> n]
EmptyDict == Dict(<<>>)

\* the outcome of a call: a value returned or an exception raised
Returns(x) == [raised |-> FALSE, val |-> x]
Raises(e) == [raised |-> TRUE, val |-> e]

\* bool(x)
Truthy(x) ==
    CASE x.t = "none" -> FALSE
      [] x.t = "str" -> Len(x.v) > 0
      [] x.t = "num" -> x.v # 0
      [] x.t = "dict" -> DOMAIN x.v # {}
      [] x.t = "list" -> x.v > 0

\* a or b
PyOr(a, b) == IF Truthy(a) THEN a ELSE b

\* d.get(k) for a dict d
Get(d, k) == IF k \in DOMAIN d.v THEN d.v[k] ELSE None

UpperCase == <<"A", "B", "C", "D", "E", "F", "G", "H", "I", "J", "K", "L", "M",
               "N", "O", "P", "Q", "R", "S", "T", "U", "V", "W", "X", "Y", "Z">>
LowerCase == <<"a", "b", "c", "d", "e", "f", "g", "h", "i", "j", "k", "l", "m",
               "n", "o", "p", "q", "r", "s", "t", "u", "v", "w", "x", "y", "z">>
Whitespace == {" ", "\t", "\n"}
Digits == <<"0", "1", "2", "3", "4", "5", "6", "7", "8", "9">>

LowerChar(c) ==
    IF \E i \in DOMAIN UpperCase : UpperCase[i] = c
       THEN LowerCase[CHOOSE i \in DOMAIN UpperCase : UpperCase[i] = c]
       ELSE c

\* str.lower()
Lower(s) == [i \in DOMAIN s |-> LowerChar(s[i])]

\* str.strip()
Strip(s) ==
    LET inner == {i \in DOMAIN s : s[i] \notin Whitespace}
    IN IF inner = {} THEN <<>>
       ELSE LET first == CHOOSE i \in inner : \A j \in inner : i <= j
                last == CHOOSE i \in inner : \A j \in inner : j <= i
            IN SubSeq(s, first, last)

\* lines 33-50
ACTION_NORMALIZATION ==
    (<<"c", "r", "e", "a", "t", "e">> :> <<"c", "r", "e", "a", "t", "e">>) @@
    (<<"s", "t", "a", "r", "t">> :> <<"s", "t", "a", "r", "t">>) @@
    (<<"s", "t", "o", "p">> :> <<"s", "t", "o", "p">>) @@
    (<<"d", "i", "e">> :> <<"d", "i", "e">>) @@
    (<<"d", "e", "s", "t", "r", "o", "y">> :> <<"d", "e", "s", "t", "r", "o", "y">>) @@
    (<<"r", "e", "s", "t", "a", "r", "t">> :> <<"r", "e", "s", "t", "a", "r", "t">>) @@
    (<<"p", "a", "u", "s", "e">> :> <<"p", "a", "u", "s", "e">>) @@
    (<<"u", "n", "p", "a", "u", "s", "e">> :> <<"u", "n", "p", "a", "u", "s", "e">>) @@
    (<<"h", "e", "a", "l", "t", "h", "_", "s", "t", "a", "t", "u", "s", ":", " ", "h", "e", "a", "l", "t", "h", "y">> :> <<"h", "e", "a", "l", "t", "h", "_", "h", "e", "a", "l", "t", "h", "y">>) @@
    (<<"h", "e", "a", "l", "t", "h", "_", "s", "t", "a", "t", "u", "s", ":", " ", "u", "n", "h", "e", "a", "l", "t", "h", "y">> :> <<"h", "e", "a", "l", "t", "h", "_", "u", "n", "h", "e", "a", "l", "t", "h", "y">>) @@
    (<<"p", "u", "l", "l">> :> <<"p", "u", "l", "l">>) @@
    (<<"p", "u", "s", "h">> :> <<"p", "u", "s", "h">>)

s_unknown == <<"u", "n", "k", "n", "o", "w", "n">>
s_unknown_id == <<"<", "u", "n", "k", "n", "o", "w", "n", ">">>
s_container == <<"c", "o", "n", "t", "a", "i", "n", "e", "r">>

\* dict.get(key) on the table: an unhashable key raises TypeError
TableGet(x) ==
    IF x.t \in {"dict", "list"} THEN Raises("TypeError")
    ELSE IF x.t = "str" /\ x.v \in DOMAIN ACTION_NORMALIZATION
            THEN Returns(Str(ACTION_NORMALIZATION[x.v]))
            ELSE Returns(None)

\* _normalize_action without the lookup in the table
normalize_action_NoTable(raw_action) ==
    IF ~Truthy(raw_action) THEN Returns(None)
    ELSE IF raw_action.t \in {"dict", "list"} THEN Raises("TypeError")
    ELSE IF raw_action.t = "str"
            THEN Returns(Str(Lower(Strip(raw_action.v))))
            ELSE Returns(raw_action)

\* lines 78-96
normalize_action(raw_action) ==
    IF ~Truthy(raw_action) THEN Returns(None)
    ELSE LET normalized == TableGet(raw_action)
         IN IF normalized.raised THEN normalized
            ELSE IF Truthy(normalized.val) THEN normalized
            ELSE IF raw_action.t = "str"
                    THEN Returns(Str(Lower(Strip(raw_action.v))))
                    ELSE Returns(raw_action)

\* isinstance(x, (int, float)) and x > 0
PositiveNumber(x) == x.t = "num" /\ x.v > 0

\* a timestamp is num/den seconds, or the clock's reading
Seconds(n, d) == [clock |-> FALSE, num |-> n, den |-> d]
Now == [clock |-> TRUE, num |-> 0, den |-> 1]
NanosPerSecond == 1000000000

\* _to_timestamp with the rules for time and timeNano exchanged
to_timestamp_NanoFirst(raw) ==
    LET t == Get(raw, "time")
        tnano == Get(raw, "timeNano")
        t_alt == PyOr(Get(raw, "timestamp"), Get(raw, "timeStamp"))
    IN IF PositiveNumber(tnano) THEN Seconds(tnano.v, NanosPerSecond)
       ELSE IF PositiveNumber(t) THEN Seconds(t.v, 1)
       ELSE IF PositiveNumber(t_alt) THEN Seconds(t_alt.v, 1)
       ELSE Now

\* lines 52-76
to_timestamp(raw) ==
    LET t == Get(raw, "time")
        tnano == Get(raw, "timeNano")
        t_alt == PyOr(Get(raw, "timestamp"), Get(raw, "timeStamp"))
    IN IF PositiveNumber(t) THEN Seconds(t.v, 1)
       ELSE IF PositiveNumber(tnano) THEN Seconds(tnano.v, NanosPerSecond)
       ELSE IF PositiveNumber(t_alt) THEN Seconds(t_alt.v, 1)
       ELSE Now

\* lines 98-103: actor.get raises AttributeError unless actor is a dict
safe_get_actor_attributes(raw) ==
    LET actor == PyOr(Get(raw, "Actor"), PyOr(Get(raw, "actor"), EmptyDict))
    IN IF actor.t # "dict" THEN Raises("AttributeError")
       ELSE LET attrs == PyOr(Get(actor, "Attributes"),
                              PyOr(Get(actor, "attributes"), EmptyDict))
            IN IF attrs.t # "dict" THEN Returns(EmptyDict) ELSE Returns(attrs)

DigitValue(c) == (CHOOSE i \in DOMAIN Digits : Digits[i] = c) - 1
IsDigit(c) == \E i \in DOMAIN Digits : Digits[i] = c

RECURSIVE DecimalValue(_)
DecimalValue(s) ==
    IF s = <<>> THEN 0
    ELSE 10 * DecimalValue(SubSeq(s, 1, Len(s) - 1)) + DigitValue(s[Len(s)])

\* int(x) that converts numbers only
PyInt_NumbersOnly(x) ==
    IF x.t = "num" THEN Returns(Num(x.v)) ELSE Raises("ValueError")

\* int(x): a number as it is; a str of digits, with an optional sign and
\* surrounding whitespace, as its value; ValueError or TypeError otherwise
PyInt(x) ==
    CASE x.t = "num" -> Returns(Num(x.v))
      [] x.t = "str" ->
           LET s == Strip(x.v)
               signed == Len(s) > 0 /\ s[1] \in {"+", "-"}
               digits == IF signed THEN Tail(s) ELSE s
           IN IF Len(digits) > 0 /\ \A i \in DOMAIN digits : IsDigit(digits[i])
                 THEN Returns(Num(IF signed /\ s[1] = "-"
                                     THEN 0 - DecimalValue(digits)
                                     ELSE DecimalValue(digits)))
                 ELSE Raises("ValueError")
      [] OTHER -> Raises("TypeError")

ExitCodeKeys == <<"exitCode", "exit_code", "exit">>

\* lines 119-130: the scan from the i-th key on
RECURSIVE ScanExitCode(_, _, _)
ScanExitCode(attrs, raw, i) ==
    IF i > Len(ExitCodeKeys) THEN None
    ELSE LET key == ExitCodeKeys[i]
             a == Get(attrs, key)
             val == IF a.t = "none" THEN Get(raw, key) ELSE a
         IN IF val.t # "none" /\ ~PyInt(val).raised
               THEN PyInt(val).val
               ELSE ScanExitCode(attrs, raw, i + 1)

\* lines 105-138
extract_container_info(raw) ==
    LET got == safe_get_actor_attributes(raw)
        attrs == got.val
    IN IF got.raised THEN got
       ELSE Returns([
           id |-> PyOr(Get(raw, "id"), PyOr(Get(raw, "ID"),
                       PyOr(Get(attrs, "container"), Get(attrs, "id")))),
           name |-> PyOr(Get(attrs, "name"), PyOr(Get(attrs, "container"), None)),
           image |-> PyOr(Get(attrs, "image"), PyOr(Get(attrs, "image.name"), None)),
           exit_code |-> ScanExitCode(attrs, raw, 1),
           attributes |-> attrs])

NormalizedEvent(domain, action, id, name, image, exit_code, timestamp, attributes, raw) ==
    [domain |-> domain, action |-> action, id |-> id, name |-> name,
     image |-> image, exit_code |-> exit_code, timestamp |-> timestamp,
     attributes |-> attributes, raw |-> raw]

\* what parse_event does for its caller
Event(ne) == [kind |-> "event", ev |-> ne, exc |-> "none"]
Absent == [kind |-> "none", ev |-> None, exc |-> "none"]
Raised(e) == [kind |-> "raised", ev |-> None, exc |-> e]
Pending == [kind |-> "pending", ev |-> None, exc |-> "none"]

\* lines 165-208: the try block; every Exception raised in it is caught
ParseBody(raw, domain, action, ts) ==
    IF domain = Str(s_container)
       THEN LET info == extract_container_info(raw)
            IN IF info.raised THEN Absent
               ELSE Event(NormalizedEvent(
                        domain, action,
                        PyOr(info.val.id, Str(s_unknown_id)),
                        info.val.name, info.val.image, info.val.exit_code,
                        ts, info.val.attributes, raw))
       ELSE LET resource_id == PyOr(Get(raw, "id"), PyOr(Get(raw, "ID"), None))
                attributes == safe_get_actor_attributes(raw)
            IN IF attributes.raised THEN Absent
               ELSE Event(NormalizedEvent(
                        domain, action,
                        PyOr(resource_id, Str(s_unknown_id)),
                        Get(attributes.val, "name"), Get(attributes.val, "image"),
                        None, ts, attributes.val, raw))

\* lines 140-208
parse_event(raw) ==
    IF raw.t # "dict" THEN Absent
    ELSE LET type == PyOr(Get(raw, "Type"), PyOr(Get(raw, "type"), Str(s_unknown)))
             raw_action == PyOr(Get(raw, "Action"),
                                PyOr(Get(raw, "action"), Get(raw, "status")))
             action == normalize_action(raw_action)
         IN IF type.t # "str" THEN Raised("AttributeError")
            ELSE IF action.raised THEN Raised(action.val)
            ELSE IF ~Truthy(action.val) THEN Absent
            ELSE ParseBody(raw, Str(Lower(type.v)), action.val, to_timestamp(raw))

\* ==== moondock/events/watcher.py =========================================

\* lines 38-39, and no activation of _run yet
InitState ==
    /\ stop_event = FALSE
    /\ worker = NoWorker
    /\ pc = [l \in Loops |-> "unborn"]
    /\ owner = [l \in Loops |-> 0]
    /\ retries = [l \in Loops |-> 0]
    /\ backoff = [l \in Loops |-> initial_backoff]
    /\ yielded = [l \in Loops |-> 0]
    /\ handled = [l \in Loops |-> 0]
    /\ raisedAt = [l \in Loops |-> 0]
    /\ reason = [l \in Loops |-> "none"]
    /\ hRec = [l \in Loops |-> 0]
    /\ hUnc = [l \in Loops |-> 0]
    /\ restarted = [l \in Loops |-> FALSE]
    /\ closed = [l \in Loops |-> 0]
    /\ streak = [l \in Loops |-> 0]
    /\ late = [l \in Loops |-> [opens |-> 0, handlers |-> 0]]
    /\ cbpc = "idle"
    /\ delivered = 0
    /\ sinkFailedAt = 0
    /\ cpc = [c \in Callers |-> "idle"]
    /\ jt = [c \in Callers |-> NoWorker]

\* lines 31-39: the watcher constructed as the tests construct it, with or
\* without a retry ceiling
InitWatcher ==
    /\ config = TestConfig
    /\ max_retries \in RetryCeilings
    /\ InitState

\* the watcher after __init__; it may be started again after it has stopped
Init ==
    /\ InitWatcher
    /\ starts_left = MaxLoops
    /\ raw_event = None
    /\ parsed = Pending

\* the watcher after __init__, in a run that starts it once
InitSingle ==
    /\ InitWatcher
    /\ starts_left = 1
    /\ raw_event = None
    /\ parsed = Pending

\* ---- _run ---------------------------------------------------------------

\* the stream object is dropped: the for loop is left
DropStream(l) ==
    /\ yielded' = [yielded EXCEPT ![l] = 0]
    /\ handled' = [handled EXCEPT ![l] = 0]
    /\ raisedAt' = [raisedAt EXCEPT ![l] = 0]

\* line 134: _run returns (or an exception leaves it); its locals are gone
Exit(l, to, why) ==
    /\ pc' = [pc EXCEPT ![l] = to]
    /\ reason' = [reason EXCEPT ![l] = why]
    /\ retries' = [retries EXCEPT ![l] = 0]
    /\ backoff' = [backoff EXCEPT ![l] = initial_backoff]
    /\ hRec' = [hRec EXCEPT ![l] = 0]
    /\ hUnc' = [hUnc EXCEPT ![l] = 0]
    /\ DropStream(l)

\* line 84: the loop condition; line 134 when it is false
LoopWhile(l) ==
    /\ pc[l] = "while"
    /\ IF WhileCondition(stop_event)
          THEN /\ pc' = [pc EXCEPT ![l] = "open"]
               /\ UNCHANGED <<reason, retries, backoff, hRec, hUnc, streamVars>>
          ELSE Exit(l, "done", "flag")
    /\ UNCHANGED <<max_retries, starts_left, stop_event, worker, owner, restarted>>
    /\ UNCHANGED callerVars

\* lines 87-91: client.events() returned a stream
OpenOk(l) ==
    /\ pc[l] = "open"
    /\ pc' = [pc EXCEPT ![l] = "next"]
    /\ retries' = [retries EXCEPT ![l] = RetriesAfterOpen(@)]
    /\ backoff' = [backoff EXCEPT ![l] = initial_backoff]
    /\ hRec' = [hRec EXCEPT ![l] = 0]
    /\ hUnc' = [hUnc EXCEPT ![l] = 0]
    /\ UNCHANGED <<max_retries, starts_left, stop_event, worker, owner, reason, restarted,
                   streamVars>>
    /\ UNCHANGED callerVars

\* lines 111-132: an error of `kind` raised inside the try block
Except(l, kind) ==
    /\ Sum([m \in Loops |-> hRec[m] + hUnc[m]], Loops) < MaxFailures
    /\ LET r == retries[l] + 1
           rec == hRec[l] + (IF kind = "recoverable" THEN 1 ELSE 0)
           unc == hUnc[l] + (IF kind = "unclassified" THEN 1 ELSE 0)
       IN CASE Catch(kind) = "except_recoverable" ->
                 IF CeilingExceeded(r, max_retries)
                    THEN Exit(l, "done", "ceiling")
                    ELSE /\ pc' = [pc EXCEPT ![l] = "sleep_error"]
                         /\ retries' = [retries EXCEPT ![l] = r]
                         /\ hRec' = [hRec EXCEPT ![l] = rec]
                         /\ hUnc' = [hUnc EXCEPT ![l] = unc]
                         /\ DropStream(l)
                         /\ UNCHANGED <<reason, backoff>>
            [] Catch(kind) = "except_exception" ->
                 /\ pc' = [pc EXCEPT ![l] = "sleep_unexpected"]
                 /\ hRec' = [hRec EXCEPT ![l] = rec]
                 /\ hUnc' = [hUnc EXCEPT ![l] = unc]
                 /\ DropStream(l)
                 /\ UNCHANGED <<reason, retries, backoff>>
            [] OTHER -> Exit(l, "raised", "exception")
    /\ UNCHANGED <<max_retries, starts_left, stop_event, worker, owner, restarted>>
    /\ UNCHANGED callerVars

\* line 87: client.events() raised
OpenFail(l) ==
    /\ pc[l] = "open"
    /\ \E kind \in ErrorKinds : Except(l, kind)

\* lines 93-99: the stream yields its next item
StreamYield(l) ==
    /\ pc[l] = "next"
    /\ Sum(yielded, Loops) < MaxEvents
    /\ IF OnItem(stop_event) = "callback"
          THEN /\ pc' = [pc EXCEPT ![l] = "callback"]
               /\ yielded' = [yielded EXCEPT ![l] = @ + 1]
               /\ handled' = [handled EXCEPT ![l] = yielded[l] + 1]
               /\ UNCHANGED <<reason, retries, backoff, hRec, hUnc, raisedAt>>
          ELSE Exit(l, OnItem(stop_event), "flag_item")
    /\ UNCHANGED <<max_retries, starts_left, stop_event, worker, owner, restarted>>
    /\ UNCHANGED callerVars

\* lines 99-101: the callback returns, or raises and the loop logs it
CallbackDone(l, outcome) ==
    /\ pc[l] = "callback"
    /\ pc' = [pc EXCEPT ![l] = AfterCallback(outcome)]
    /\ raisedAt' = [raisedAt EXCEPT ![l] = IF outcome = "raised" THEN handled[l] ELSE @]
    /\ UNCHANGED <<max_retries, starts_left, stop_event, worker, owner, retries, backoff,
                   yielded, handled, reason, hRec, hUnc, restarted>>
    /\ UNCHANGED callerVars

CallbackReturn(l) == CallbackDone(l, "returned")
CallbackRaise(l) == CallbackDone(l, "raised")

\* lines 93, 103-109: the stream ends without an error
StreamEnd(l) ==
    /\ pc[l] = "next"
    /\ IF stop_event
          THEN Exit(l, "done", "flag")
          ELSE /\ Sum(closed, Loops) < MaxClosures
               /\ pc' = [pc EXCEPT ![l] = "sleep_closed"]
               /\ DropStream(l)
               /\ UNCHANGED <<reason, retries, backoff, hRec, hUnc>>
    /\ UNCHANGED <<max_retries, starts_left, stop_event, worker, owner, restarted>>
    /\ UNCHANGED callerVars

\* line 93: reading the stream raises
StreamFail(l) ==
    /\ pc[l] = "next"
    /\ \E kind \in ErrorKinds : Except(l, kind)

\* lines 109, 126-127, 131-132: time.sleep(backoff) returns
Wake(l) ==
    /\ Sleeping(l)
    /\ pc' = [pc EXCEPT ![l] = "while"]
    /\ backoff' = [backoff EXCEPT ![l] = BackoffAfterSleep(pc[l], @)]
    /\ UNCHANGED <<max_retries, starts_left, stop_event, worker, owner, retries, yielded,
                   handled, raisedAt, reason, hRec, hUnc, restarted>>
    /\ UNCHANGED callerVars

\* ---- the watcher's methods ----------------------------------------------

\* lines 81-82: a loop begins with retries = 0 and backoff = initial_backoff
Begin(l, c) ==
    /\ pc' = [pc EXCEPT ![l] = "while"]
    /\ owner' = [owner EXCEPT ![l] = c]
    /\ retries' = [retries EXCEPT ![l] = 0]
    /\ backoff' = [backoff EXCEPT ![l] = initial_backoff]
    /\ restarted' = [restarted EXCEPT ![l] = AllEnded]

\* lines 45-47: start_in_background checks for a live worker
SibCheck(c) ==
    /\ Free(c)
    /\ cpc' = [cpc EXCEPT ![c] =
                  IF worker # NoWorker /\ Alive(worker) THEN "idle" ELSE "sib_create"]
    /\ UNCHANGED <<max_retries, starts_left, stop_event, worker, jt>>
    /\ UNCHANGED loopVars

\* lines 49-53: self._worker = threading.Thread(target=self._run, ...)
SibCreate(c) ==
    /\ cpc[c] = "sib_create"
    /\ starts_left > 0
    /\ starts_left' = starts_left - 1
    /\ worker' = Fresh
    /\ pc' = [pc EXCEPT ![Fresh] = "created"]
    /\ cpc' = [cpc EXCEPT ![c] = "sib_start"]
    /\ UNCHANGED <<max_retries, stop_event, owner, retries, backoff, yielded,
                   handled, raisedAt, reason, hRec, hUnc, restarted, jt>>

\* line 54: self._worker.start(); RuntimeError if that Thread was started already
SibStart(c) ==
    /\ cpc[c] = "sib_start"
    /\ IF pc[worker] = "created"
          THEN /\ Begin(worker, 0)
               /\ cpc' = [cpc EXCEPT ![c] = "idle"]
          ELSE /\ cpc' = [cpc EXCEPT ![c] = "start_raised"]
               /\ UNCHANGED <<pc, owner, retries, backoff, restarted>>
    /\ UNCHANGED <<max_retries, starts_left, stop_event, worker, yielded, handled, raisedAt,
                   reason, hRec, hUnc, jt>>

\* lines 57-62: start_forever runs _run on the caller's thread
StartForever(c) ==
    /\ Free(c)
    /\ starts_left > 0
    /\ starts_left' = starts_left - 1
    /\ Begin(Fresh, c)
    /\ cpc' = [cpc EXCEPT ![c] = "idle"]
    /\ UNCHANGED <<max_retries, stop_event, worker, yielded, handled, raisedAt,
                   reason, hRec, hUnc, jt>>

\* lines 68-71: stop() sets the flag and calls join on the worker, if any;
\* join raises RuntimeError for a Thread that has not been started
Stop(c) ==
    /\ Free(c)
    /\ stop_event' = TRUE
    /\ IF worker = NoWorker
          THEN /\ cpc' = [cpc EXCEPT ![c] = "idle"]
               /\ UNCHANGED jt
          ELSE IF pc[worker] = "created"
          THEN /\ cpc' = [cpc EXCEPT ![c] = "stop_raised"]
               /\ UNCHANGED jt
          ELSE /\ cpc' = [cpc EXCEPT ![c] = "join"]
               /\ jt' = [jt EXCEPT ![c] = worker]
    /\ UNCHANGED <<max_retries, starts_left, worker>>
    /\ UNCHANGED loopVars

\* lines 71-72: join returns because the thread has ended
JoinReturn(c) ==
    /\ cpc[c] = "join"
    /\ ~Alive(jt[c])
    /\ cpc' = [cpc EXCEPT ![c] = "idle"]
    /\ jt' = [jt EXCEPT ![c] = NoWorker]
    /\ UNCHANGED <<max_retries, starts_left, stop_event, worker>>
    /\ UNCHANGED loopVars

\* the thread is blocked in a call that can last longer than the join timeout
Blocked(l) == pc[l] \in {"open", "next", "callback"}

\* lines 71-72: join(timeout=5.0) returns while the thread is still running
JoinTimeout(c) ==
    /\ cpc[c] = "join"
    /\ Blocked(jt[c])
    /\ cpc' = [cpc EXCEPT ![c] = "timed_out"]
    /\ jt' = [jt EXCEPT ![c] = NoWorker]
    /\ UNCHANGED <<max_retries, starts_left, stop_event, worker>>
    /\ UNCHANGED loopVars

LoopStep(l) ==
    \/ LoopWhile(l)
    \/ OpenOk(l)
    \/ OpenFail(l)
    \/ StreamYield(l)
    \/ CallbackReturn(l)
    \/ CallbackRaise(l)
    \/ StreamEnd(l)
    \/ StreamFail(l)
    \/ Wake(l)

CallerStep(c) ==
    \/ SibCheck(c)
    \/ SibCreate(c)
    \/ SibStart(c)
    \/ StartForever(c)
    \/ Stop(c)
    \/ JoinReturn(c)
    \/ JoinTimeout(c)

WatcherStep ==
    \/ \E l \in Loops : LoopStep(l)
    \/ \E c \in Callers : CallerStep(c)

\* lines 103-109: a stream that ends without an error, the flag not set, is
\* one more closure in a row; an error, or the end of the loop, ends the row
CountClosures ==
    closed' = [l \in Loops |->
                  IF pc[l] = "next" /\ pc'[l] = "sleep_closed" THEN closed[l] + 1
                  ELSE IF pc'[l] \in {"sleep_error", "sleep_unexpected", "done",
                                      "raised", "unborn", "created"} THEN 0
                  ELSE closed[l]]

Next ==
    /\ WatcherStep
    /\ UNCHANGED parserVars
    /\ UNCHANGED pipelineVars
    /\ UNCHANGED configVars
    /\ UNCHANGED streakVars
    /\ UNCHANGED lateVars
    /\ CountClosures

\* the watcher under any use of its methods by the threads of Callers
Spec == Init /\ [][Next]_vars

\* the watcher started once, with stop() and further start calls at any time
SpecSingle == InitSingle /\ [][Next]_vars

\* ---- arguments of parse_event ---------------------------------------------

\* a key that the dict does not hold
Missing == [t |-> "missing", v |-> 0]

\* the dict of the keys of f that are not Missing
MkDict(f) == Dict([k \in {j \in DOMAIN f : f[j].t # "missing"} |-> f[k]])

TypeValues ==
    {Missing, Str(s_container), Str(<<"C", "o", "n", "t", "a", "i", "n", "e", "r">>), Str(<<"n", "e", "t", "w", "o", "r", "k">>),
     Num(5), List(1)}
LowerTypeValues == {Missing, Str(<<"i", "m", "a", "g", "e">>)}
ActionValues ==
    {Missing, Str(<<"d", "i", "e">>), Str(<<" ", "D", "i", "e", " ">>), Str(<<"o", "o", "m">>),
     Str(<<"h", "e", "a", "l", "t", "h", "_", "s", "t", "a", "t", "u", "s", ":", " ", "h", "e", "a", "l", "t", "h", "y">>),
     Str(<<>>), Str(<<" ">>), Num(5), List(1), EmptyDict, Dict([a |-> Num(1)])}
LowerActionValues == {Missing, Str(<<"s", "t", "a", "r", "t">>)}
StatusValues == {Missing, Str(<<"s", "t", "o", "p">>)}
IdValues == {Missing, Str(<<"9", "1", "a", "b">>)}
TimeValues == {Missing, Num(1700), Str(<<"n", "o", "w">>)}
TimeNanoValues == {Missing, Num(1500000000)}
NameValues == {Missing, Str(<<"w", "e", "b">>)}
ImageValues == {Missing, Str(<<"b", "u", "s", "y", "b", "o", "x", ":", "l", "a", "t", "e", "s", "t">>)}
ExitCodeValues == {Missing, Str(<<"1", "3", "7">>), Str(<<"n", "/", "a">>), Num(1)}

AttributesValues ==
    {Missing, Str(<<"x">>)} \cup
    {MkDict([name |-> n, image |-> i, exitCode |-> e]) :
        n \in NameValues, i \in ImageValues, e \in ExitCodeValues}

ActorValues ==
    {Missing, Str(<<"x">>), List(1)} \cup
    {MkDict([ID |-> Str(<<"9", "1", "a", "b">>), Attributes |-> a]) : a \in AttributesValues}

RawEvents ==
    {None, Str(<<"n", "o", "t", "-", "a", "-", "d", "i", "c", "t">>), Num(5), List(0)} \cup
    {MkDict([Type |-> ty, type |-> lty, Action |-> ac, action |-> lac,
             status |-> st, id |-> i, time |-> t, timeNano |-> tn, Actor |-> a]) :
        ty \in TypeValues, lty \in LowerTypeValues, ac \in ActionValues,
        lac \in LowerActionValues, st \in StatusValues, i \in IdValues,
        t \in TimeValues, tn \in TimeNanoValues, a \in ActorValues}

\* parse_event is about to be called with one of RawEvents
InitParse ==
    /\ InitWatcher
    /\ max_retries = NoLimit
    /\ starts_left = 0
    /\ raw_event \in RawEvents
    /\ parsed = Pending

\* the call of parse_event(raw_event)
ParseEvent ==
    /\ parsed = Pending
    /\ parsed' = parse_event(raw_event)
    /\ UNCHANGED raw_event
    /\ UNCHANGED watcherVars
    /\ UNCHANGED historyVars
    /\ UNCHANGED pipelineVars
    /\ UNCHANGED configVars
    /\ UNCHANGED streakVars
    /\ UNCHANGED lateVars

NextParse == ParseEvent

\* one call of parse_event
SpecParse == InitParse /\ [][NextParse]_vars

\* ---- the watcher under any configuration ----------------------------------

\* configurations: initial_backoff <= max_backoff and backoff_factor >= 1 in
\* all but the last two
Configs ==
    {[initial_backoff |-> i, backoff_factor |-> f, max_backoff |-> m] :
        i \in 1..2, f \in 1..3, m \in {2, 5}}
    \cup {[initial_backoff |-> 3, backoff_factor |-> 2, max_backoff |-> 2],
          [initial_backoff |-> 1, backoff_factor |-> 0, max_backoff |-> 5]}

ConfigCeilings == {NoLimit, 0, 1, TestMaxRetries}

\* lines 31-39: the watcher constructed with any of Configs
InitConfig ==
    /\ config \in Configs
    /\ max_retries \in ConfigCeilings
    /\ InitState
    /\ starts_left = 1
    /\ raw_event = None
    /\ parsed = Pending

Tainted == 0 - 1

\* lines 87-93, 111-127: a recoverable error raised by the stream is one more
\* in the streak of a loop none of whose opens has failed and whose stream
\* has raised nothing else; any other error taints the loop
CountStreak ==
    streak' = [l \in Loops |->
        IF pc[l] \in {"unborn", "created"} /\ pc'[l] = "while" THEN 0
        ELSE IF pc[l] = "open" /\ pc'[l] \notin {"open", "next"} THEN Tainted
        ELSE IF pc[l] = "next" /\ pc'[l] \in {"sleep_unexpected", "raised"}
                THEN Tainted
        ELSE IF /\ pc[l] = "next"
                /\ \/ pc'[l] = "sleep_error"
                   \/ pc'[l] = "done" /\ reason'[l] = "ceiling"
                THEN IF streak[l] = Tainted THEN Tainted
                     ELSE Min(streak[l] + 1, MaxStreak)
        ELSE streak[l]]

ConfigLoopStep == \E l \in Loops : LoopStep(l)
ConfigStart == \E c \in Callers : StartForever(c)
ConfigStop == \E c \in Callers : Stop(c)

ConfigNext ==
    /\ \/ ConfigLoopStep
       \/ ConfigStart
       \/ ConfigStop
    /\ UNCHANGED parserVars
    /\ UNCHANGED pipelineVars
    /\ UNCHANGED configVars
    /\ UNCHANGED lateVars
    /\ CountClosures
    /\ CountStreak

\* the watcher run once by start_forever, stop() called at any time, under
\* any of Configs
SpecConfig == InitConfig /\ [][ConfigNext]_vars

\* ---- calls begun after stop() ---------------------------------------------

\* lines 87 and 99: the loop at "open" calls client.events() in its next step
\* and the loop at "callback" calls self.callback(raw_event); the check that
\* let it get there (line 84, line 94) is an earlier step, so stop() (line 69)
\* may have set the flag in between. Such a call is counted, up to MaxLate.
CountLate ==
    late' = [l \in Loops |->
                IF pc[l] \in {"unborn", "created"} /\ pc'[l] = "while"
                   THEN [opens |-> 0, handlers |-> 0]
                ELSE IF stop_event /\ pc[l] = "open" /\ pc'[l] # "open"
                   THEN [late[l] EXCEPT !.opens = Min(@ + 1, MaxLate)]
                ELSE IF stop_event /\ pc[l] = "callback" /\ pc'[l] # "callback"
                   THEN [late[l] EXCEPT !.handlers = Min(@ + 1, MaxLate)]
                ELSE late[l]]

LateNext ==
    /\ WatcherStep
    /\ UNCHANGED parserVars
    /\ UNCHANGED pipelineVars
    /\ UNCHANGED configVars
    /\ UNCHANGED streakVars
    /\ CountClosures
    /\ CountLate

\* the watcher started once, stop() and further start calls at any time, the
\* calls begun with the flag set counted
SpecLate == InitSingle /\ [][LateNext]_vars

\* ==== moondock/main.py: the watcher with docker_event_callback ==============

\* items of the stream: a container die event, a non-mapping, a mapping with
\* no action, and a mapping whose Type is a number
PipelineEvents ==
    {MkDict([Type |-> Str(s_container), Action |-> Str(<<"d", "i", "e">>),
             id |-> Str(<<"9", "1", "a", "b">>)]),
     Str(<<"n", "o", "t", "-", "a", "-", "d", "i", "c", "t">>),
     MkDict([Type |-> Str(s_container)]),
     MkDict([Type |-> Num(5), Action |-> Str(<<"d", "i", "e">>)])}

\* what send_event does: it returns True, returns False, or raises
SinkOutcomes == {"sent", "failed", "raised"}

\* the callback that sends whatever parse_event returned
ShouldSend_Always(ne) == TRUE

\* line 9: if ne
ShouldSend(ne) == ne.kind = "event"

\* lines 10-14: every outcome of send_event leaves the callback returning
AfterSend(outcome) == "returned"

\* lines 93-99: the stream yields an item and the loop calls the callback
PipelineYield(l) ==
    /\ StreamYield(l)
    /\ IF pc'[l] = "callback"
          THEN /\ raw_event' \in PipelineEvents
               /\ parsed' = Pending
               /\ cbpc' = "parse"
               /\ delivered' = 0
               /\ sinkFailedAt' = IF yielded[l] = 0 THEN 0 ELSE sinkFailedAt
          ELSE /\ UNCHANGED parserVars
               /\ UNCHANGED pipelineVars

\* lines 8-9: ne = parse_event(raw_event); an exception of parse_event leaves
\* the callback; None ends it
CallbackParse(l) ==
    /\ pc[l] = "callback"
    /\ cbpc = "parse"
    /\ LET ne == parse_event(raw_event)
       IN /\ parsed' = ne
          /\ IF ne.kind = "raised"
                THEN CallbackRaise(l) /\ cbpc' = "idle"
                ELSE IF ShouldSend(ne)
                THEN /\ cbpc' = "send"
                     /\ UNCHANGED watcherVars
                ELSE CallbackReturn(l) /\ cbpc' = "idle"
    /\ UNCHANGED <<raw_event, delivered, sinkFailedAt>>

\* lines 10-14: discord_client.send_event(ne), any exception caught
CallbackSend(l) ==
    /\ pc[l] = "callback"
    /\ cbpc = "send"
    /\ \E outcome \in SinkOutcomes :
          /\ delivered' = delivered + 1
          /\ sinkFailedAt' = IF outcome = "sent" THEN sinkFailedAt ELSE handled[l]
          /\ CallbackDone(l, AfterSend(outcome))
    /\ cbpc' = "idle"
    /\ UNCHANGED parserVars

\* the steps of _run outside the callback
PipelineLoopStep(l) ==
    /\ \/ LoopWhile(l)
       \/ OpenOk(l)
       \/ OpenFail(l)
       \/ StreamEnd(l)
       \/ StreamFail(l)
       \/ Wake(l)
    /\ UNCHANGED parserVars
    /\ UNCHANGED pipelineVars

PipelineCallerStep(c) ==
    /\ CallerStep(c)
    /\ UNCHANGED parserVars
    /\ UNCHANGED pipelineVars

PipelineNext ==
    /\ \/ \E l \in Loops : PipelineLoopStep(l)
       \/ \E l \in Loops : PipelineYield(l)
       \/ \E l \in Loops : CallbackParse(l)
       \/ \E l \in Loops : CallbackSend(l)
       \/ \E c \in Callers : PipelineCallerStep(c)
    /\ UNCHANGED configVars
    /\ UNCHANGED streakVars
    /\ UNCHANGED lateVars
    /\ CountClosures

\* the watcher of main(), started once, its callback docker_event_callback
SpecPipeline == InitSingle /\ [][PipelineNext]_vars

\* ---- arguments of parse_event: the time fields ------------------------------

StampTimeValues == {Missing, Num(1700), Num(0), Num(-3), Str(<<"n", "o", "w">>)}
StampTimeNanoValues == {Missing, Num(1500000000), Num(0)}
StampTimestampValues == {Missing, Num(1600), Num(0), Num(-5), Str(<<"a", "b", "c">>)}
StampTimeStampValues == {Missing, Num(1650), Num(-7)}

TimestampEvents ==
    {MkDict([Type |-> ty, Action |-> Str(<<"d", "i", "e">>), time |-> t,
             timeNano |-> tn, timestamp |-> ts, timeStamp |-> tS]) :
        ty \in {Missing, Str(s_container)}, t \in StampTimeValues,
        tn \in StampTimeNanoValues, ts \in StampTimestampValues,
        tS \in StampTimeStampValues}

\* parse_event is about to be called with one of TimestampEvents
InitTimestamp ==
    /\ InitWatcher
    /\ max_retries = NoLimit
    /\ starts_left = 0
    /\ raw_event \in TimestampEvents
    /\ parsed = Pending

\* one call of parse_event on an event with any of the time fields
SpecTimestamp == InitTimestamp /\ [][NextParse]_vars

\* ---- arguments of parse_event: the exit code fields -------------------------

ExitEvents ==
    {MkDict([Type |-> Str(s_container), Action |-> Str(<<"d", "i", "e">>),
             exitCode |-> te, exit_code |-> tc, exit |-> tx,
             Actor |-> MkDict([Attributes |->
                         MkDict([exitCode |-> ae, exit_code |-> ac, exit |-> ax])])]) :
        te \in {Missing, Str(<<"1">>), Str(<<"x">>)},
        tc \in {Missing, Num(4)},
        tx \in {Missing, Str(<<"6">>)},
        ae \in {Missing, Str(<<"1", "3", "7">>), Str(<<"n", "/", "a">>)},
        ac \in {Missing, Str(<<"7">>)},
        ax \in {Missing, Str(<<"2">>), List(1)}}

\* parse_event is about to be called with one of ExitEvents
InitExit ==
    /\ InitWatcher
    /\ max_retries = NoLimit
    /\ starts_left = 0
    /\ raw_event \in ExitEvents
    /\ parsed = Pending

\* one call of parse_event on a container event with any of the exit code fields
SpecExit == InitExit /\ [][NextParse]_vars

\* ---- arguments of parse_event: variants of an action ------------------------

ActionStrings ==
    {<<"d", "i", "e">>, <<" ", "D", "i", "e", " ">>, <<"D", "I", "E">>,
     <<"o", "o", "m">>, <<"P", "u", "l", "l", "\n">>,
     <<"h", "e", "a", "l", "t", "h", "_", "h", "e", "a", "l", "t", "h", "y">>,
     <<"h", "e", "a", "l", "t", "h", "_", "s", "t", "a", "t", "u", "s", ":", " ", "h", "e", "a", "l", "t", "h", "y">>,
     <<" ", "H", "e", "a", "l", "t", "h", "_", "S", "t", "a", "t", "u", "s", ":", " ", "H", "e", "a", "l", "t", "h", "y", " ">>}

ActionEvents ==
    {MkDict([Type |-> ty, Action |-> Str(a), status |-> st, id |-> i, time |-> t]) :
        ty \in {Missing, Str(s_container), Str(<<"n", "e", "t", "w", "o", "r", "k">>)},
        a \in ActionStrings, st \in StatusValues, i \in IdValues,
        t \in {Missing, Num(1700)}}

\* parse_event is about to be called with one of ActionEvents
InitAction ==
    /\ InitWatcher
    /\ max_retries = NoLimit
    /\ starts_left = 0
    /\ raw_event \in ActionEvents
    /\ parsed = Pending

\* one call of parse_event on an event whose Action is one of ActionStrings
SpecAction == InitAction /\ [][NextParse]_vars

\* ---- properties -----------------------------------------------------------

RECURSIVE Pow(_, _)
Pow(b, e) == IF e = 0 THEN 1 ELSE b * Pow(b, e - 1)

\* the sleep a loop is in lasts `backoff`: time.sleep(backoff) precedes the update
SleepDuration(l) == backoff[l]

\* min(initial_backoff * backoff_factor^(k-1), max_backoff)
ClosedFormBackoff(k) == Min(initial_backoff * Pow(backoff_factor, k - 1), max_backoff)

\* C1: while every error since the last successful open (or since the start) is
\* recoverable, the sleep after the k-th of them lasts
\* min(initial_backoff * backoff_factor^(k-1), max_backoff): 1, 2, 4, 5, 5, ...;
\* and the first sleep after a successful open lasts initial_backoff, whether it
\* follows a clean closure or the first error
C1_BackoffSequence ==
    \A l \in Loops :
        /\ pc[l] = "sleep_error" /\ hUnc[l] = 0
              => SleepDuration(l) = ClosedFormBackoff(hRec[l])
        /\ pc[l] = "sleep_closed" => SleepDuration(l) = initial_backoff
        /\ Sleeping(l) /\ hRec[l] + hUnc[l] <= 1 => SleepDuration(l) = initial_backoff

\* the fifth consecutive recoverable error is followed by the second capped sleep
C1_Witness ==
    \E l \in Loops :
        /\ pc[l] = "sleep_error"
        /\ hUnc[l] = 0
        /\ hRec[l] = 5
        /\ SleepDuration(l) = max_backoff

\* C2: with max_retries = N, a loop still running has seen at most N recoverable
\* errors since its last successful open, so the (N+1)-th ends it before another
\* open attempt; and the loop ends on the ceiling only at the (N+1)-th, going
\* to STOPPED
C2_RetryCeiling ==
    /\ [](\A l \in Loops :
            max_retries # NoLimit /\ Alive(l) => hRec[l] <= max_retries)
    /\ [][\A l \in Loops :
            reason'[l] = "ceiling" /\ reason[l] # "ceiling"
               => /\ max_retries # NoLimit
                  /\ hRec[l] = max_retries
                  /\ pc[l] \in {"open", "next"}
                  /\ pc'[l] = "done"]_vars

\* a loop configured with max_retries = 3 has stopped on the ceiling
C2_Witness ==
    \E l \in Loops :
        /\ max_retries = TestMaxRetries
        /\ pc[l] = "done"
        /\ reason[l] = "ceiling"

\* C3: when the callback returns or raises, the loop goes on reading the same
\* stream, with the retry counter and the backoff unchanged; every item the
\* stream has yielded has been passed to the callback
C3_HandlerFaultIsolated ==
    /\ [](\A l \in Loops :
            pc[l] \in {"next", "callback"} => handled[l] = yielded[l])
    /\ [][\A l \in Loops :
            pc[l] = "callback" /\ pc'[l] # "callback"
               => /\ pc'[l] = "next"
                  /\ yielded'[l] = yielded[l]
                  /\ retries'[l] = retries[l]
                  /\ backoff'[l] = backoff[l]]_vars

\* the callback raised on item 1 and is running for item 2 of the same stream
C3_Witness ==
    \E l \in Loops :
        /\ pc[l] = "callback"
        /\ raisedAt[l] = 1
        /\ handled[l] = 2

\* C4 (as claimed): at most one activation of _run is running at a time
C4_SingleLoop == Cardinality(Running) <= 1

\* C5 (as claimed): the callback is never running in two loops at once, and
\* each loop passes the items of its stream to it in order, none skipped
C5_HandlerNeverOverlaps ==
    /\ Cardinality({l \in Loops : pc[l] = "callback"}) <= 1
    /\ \A l \in Loops : pc[l] \in {"next", "callback"} => handled[l] = yielded[l]

\* how many loop steps are left, at most, once the flag is set
Rank(p) ==
    CASE p \in {"open", "callback"} -> 4
      [] p = "next" -> 3
      [] p \in {"sleep_closed", "sleep_error", "sleep_unexpected"} -> 2
      [] p = "while" -> 1
      [] OTHER -> 0

\* C6 (as claimed): stop() never returns with the thread it joined still running
C6_ExitsWithinGrace == \A c \in Callers : cpc[c] # "timed_out"

\* C6 (amended): once the flag is set, every step of a running loop brings it
\* nearer to STOPPED: it ends at its next check of the flag, after at most
\* four steps, each taken when the call the loop is blocked in returns
C6_ExitsAtNextCheckpoint ==
    [][\A l \in Loops :
          stop_event /\ Alive(l) /\ pc'[l] # pc[l] => Rank(pc'[l]) < Rank(pc[l])]_vars

\* stop() has returned on its timeout, and the background thread has then
\* ended on the flag
C6_Witness ==
    /\ \E c \in Callers : cpc[c] = "timed_out"
    /\ \E l \in Loops : owner[l] = 0 /\ pc[l] = "done" /\ reason[l] = "flag"

\* C7 (as claimed): stop() never raises
C7_StopNeverRaises == \A c \in Callers : cpc[c] # "stop_raised"

\* C8 (as claimed): a loop started after the watcher had reached STOPPED opens
\* no stream and runs no callback
C8_StoppedIsTerminal ==
    \A l \in Loops : restarted[l] => pc[l] \in {"while", "done"}

\* C9: no error leaves _run: a loop never ends by an exception, and it ends
\* only on the flag, which is then set, or on the retry ceiling
C9_NothingPropagates ==
    \A l \in Loops :
        /\ pc[l] # "raised"
        /\ pc[l] = "done" =>
              \/ reason[l] \in FlagReasons /\ stop_event
              \/ reason[l] = "ceiling" /\ max_retries # NoLimit

\* start_forever has returned because the retry ceiling was exceeded
C9_Witness ==
    \E l \in Loops :
        /\ owner[l] # 0
        /\ pc[l] = "done"
        /\ reason[l] = "ceiling"
        /\ ~stop_event

\* C10 (as claimed): parse_event raises nothing to its caller: it returns a
\* NormalizedEvent or None
C10_ParseNeverRaises == parsed.kind # "raised"

\* ---- properties of parse_event ---------------------------------------------

ActionKeys == {"Action", "action", "status"}

\* the value is a string that is not empty once trimmed
YieldsAction(x) == x.t = "str" /\ Strip(x.v) # <<>>

\* C11 (as claimed): a non-mapping gives None; a mapping none of whose keys
\* Action, action, status holds a non-empty string gives no event; and the
\* action of every NormalizedEvent returned is a non-empty string
C11_EventHasAction ==
    parsed.kind # "pending" =>
        /\ raw_event.t # "dict" => parsed.kind = "none"
        /\ (raw_event.t = "dict"
              /\ \A k \in ActionKeys : ~YieldsAction(Get(raw_event, k)))
              => parsed.kind # "event"
        /\ parsed.kind = "event"
              => parsed.ev.action.t = "str" /\ Len(parsed.ev.action.v) > 0

s_137 == <<"1", "3", "7">>

\* a container event with a known Action, a top-level id, and
\* Actor.Attributes holding name, image and exitCode "137"
WellFormed(raw) ==
    /\ raw.t = "dict"
    /\ Get(raw, "Type") = Str(s_container)
    /\ Get(raw, "Action").t = "str"
    /\ Get(raw, "Action").v \in DOMAIN ACTION_NORMALIZATION
    /\ YieldsAction(Get(raw, "id"))
    /\ Get(raw, "Actor").t = "dict"
    /\ LET attrs == Get(Get(raw, "Actor"), "Attributes")
       IN /\ attrs.t = "dict"
          /\ YieldsAction(Get(attrs, "name"))
          /\ YieldsAction(Get(attrs, "image"))
          /\ Get(attrs, "exitCode") = Str(s_137)

\* C12: a well-formed container event gives an event with domain "container",
\* the canonical verb of its Action, its top-level id, the name and image of
\* its attributes, and exit_code 137 for exitCode "137"
C12_WellFormedContainerEvent ==
    parsed.kind # "pending" /\ WellFormed(raw_event) =>
        LET attrs == Get(Get(raw_event, "Actor"), "Attributes")
        IN /\ parsed.kind = "event"
           /\ parsed.ev.domain = Str(s_container)
           /\ parsed.ev.action = Str(ACTION_NORMALIZATION[Get(raw_event, "Action").v])
           /\ parsed.ev.id = Get(raw_event, "id")
           /\ parsed.ev.name = Get(attrs, "name")
           /\ parsed.ev.image = Get(attrs, "image")
           /\ parsed.ev.exit_code = Num(137)

\* the die event with exitCode "137" has been parsed
C12_Witness ==
    /\ WellFormed(raw_event)
    /\ Get(raw_event, "Action") = Str(<<"d", "i", "e">>)
    /\ parsed.kind = "event"
    /\ parsed.ev.exit_code = Num(137)

\* the first of Type, type that is truthy is a string, or there is none
TypeOk(raw) == PyOr(Get(raw, "Type"), Get(raw, "type")).t \in {"str", "none"}

\* the raw action the event is made from
FirstTruthyAction(raw) ==
    PyOr(Get(raw, "Action"), PyOr(Get(raw, "action"), Get(raw, "status")))

\* the attributes mapping of the raw event, empty when the actor structure is
\* missing or malformed at any level
ClaimedAttributes(raw) ==
    LET actor == PyOr(Get(raw, "Actor"), Get(raw, "actor"))
    IN IF actor.t # "dict" THEN EmptyDict
       ELSE LET attrs == PyOr(Get(actor, "Attributes"), Get(actor, "attributes"))
            IN IF attrs.t # "dict" THEN EmptyDict ELSE attrs

\* C19 (as claimed): a mapping with a resolvable action gives an event whose
\* attributes are Actor.Attributes when that is a mapping and the empty
\* mapping otherwise, and whose raw is the mapping itself
C19_MalformedActorGivesEmptyAttributes ==
    (/\ parsed.kind # "pending"
     /\ raw_event.t = "dict"
     /\ TypeOk(raw_event)
     /\ YieldsAction(FirstTruthyAction(raw_event)))
       => /\ parsed.kind = "event"
          /\ parsed.ev.attributes = ClaimedAttributes(raw_event)
          /\ parsed.ev.raw = raw_event

\* the first of Action, action, status that the mapping holds
FirstPresentAction(raw) ==
    IF "Action" \in DOMAIN raw.v THEN raw.v["Action"]
    ELSE IF "action" \in DOMAIN raw.v THEN raw.v["action"]
    ELSE IF "status" \in DOMAIN raw.v THEN raw.v["status"]
    ELSE None

\* the table's name for a raw action in the table, its lower-cased trimmed
\* form otherwise
ExpectedAction(s) ==
    IF s \in DOMAIN ACTION_NORMALIZATION THEN ACTION_NORMALIZATION[s]
    ELSE Lower(Strip(s))

\* the actor structure is absent or well-formed
ActorOk(raw) == PyOr(Get(raw, "Actor"), Get(raw, "actor")).t \in {"dict", "none"}

\* C20 (as claimed): the action of an event is made from the first of Action,
\* action, status that is present
C20_FirstPresentAction ==
    (/\ parsed.kind = "event"
     /\ FirstPresentAction(raw_event).t = "str")
       => parsed.ev.action = Str(ExpectedAction(FirstPresentAction(raw_event).v))

\* C20 (amended): the raw action is the first of Action, action, status whose
\* value is truthy (a key holding an empty value is passed over); when it is a
\* string, the action of the event is the table's name for it, or its
\* lower-cased trimmed form when the table does not hold it, and such a string
\* is not rejected
C20_FirstTruthyAction ==
    (/\ parsed.kind # "pending"
     /\ raw_event.t = "dict"
     /\ FirstTruthyAction(raw_event).t = "str")
       => LET expected == ExpectedAction(FirstTruthyAction(raw_event).v)
          IN /\ parsed.kind = "event" => parsed.ev.action = Str(expected)
             /\ (TypeOk(raw_event) /\ ActorOk(raw_event) /\ expected # <<>>)
                   => parsed.kind = "event"

\* Action holds the empty string, action is missing, and the event has the
\* action of status
C20_Witness ==
    /\ raw_event.t = "dict"
    /\ "Action" \in DOMAIN raw_event.v
    /\ raw_event.v["Action"] = Str(<<>>)
    /\ "action" \notin DOMAIN raw_event.v
    /\ parsed.kind = "event"
    /\ parsed.ev.action = Str(<<"s", "t", "o", "p">>)

Numeric(x) == x.t = "num"

\* C13 (as claimed): the timestamp of an event is a positive numeric time;
\* otherwise a positive numeric timeNano over 1e9; otherwise a numeric
\* timestamp or timeStamp; otherwise the clock
C13_TimestampOrder ==
    parsed.kind = "event" =>
        LET t == Get(raw_event, "time")
            tnano == Get(raw_event, "timeNano")
            ts == Get(raw_event, "timestamp")
            tS == Get(raw_event, "timeStamp")
        IN parsed.ev.timestamp =
              IF Numeric(t) /\ t.v > 0 THEN Seconds(t.v, 1)
              ELSE IF Numeric(tnano) /\ tnano.v > 0 THEN Seconds(tnano.v, NanosPerSecond)
              ELSE IF Numeric(ts) THEN Seconds(ts.v, 1)
              ELSE IF Numeric(tS) THEN Seconds(tS.v, 1)
              ELSE Now

\* C13 (amended): as claimed for time and timeNano; then the first truthy of
\* timestamp and timeStamp is used if it is a positive number; otherwise the
\* clock; so the timestamp of an event is a positive number or the clock's
C13_TimestampOrderPositive ==
    parsed.kind = "event" =>
        LET t == Get(raw_event, "time")
            tnano == Get(raw_event, "timeNano")
            ts == Get(raw_event, "timestamp")
            tS == Get(raw_event, "timeStamp")
            alt == IF Truthy(ts) THEN ts ELSE tS
        IN /\ parsed.ev.timestamp =
                 IF Numeric(t) /\ t.v > 0 THEN Seconds(t.v, 1)
                 ELSE IF Numeric(tnano) /\ tnano.v > 0
                         THEN Seconds(tnano.v, NanosPerSecond)
                 ELSE IF Numeric(alt) /\ alt.v > 0 THEN Seconds(alt.v, 1)
                 ELSE Now
           /\ parsed.ev.timestamp.clock \/ parsed.ev.timestamp.num > 0

\* time and timeNano are both positive numbers, and the event has time
C13_Witness ==
    /\ parsed.kind = "event"
    /\ Get(raw_event, "time") = Num(1700)
    /\ Get(raw_event, "timeNano") = Num(1500000000)
    /\ parsed.ev.timestamp = Seconds(1700, 1)

\* the first value of the sequence that is present and parses as an integer
RECURSIVE FirstParsable(_)
FirstParsable(vals) ==
    IF vals = <<>> THEN None
    ELSE IF Head(vals).t # "none" /\ ~PyInt(Head(vals)).raised
            THEN PyInt(Head(vals)).val
            ELSE FirstParsable(Tail(vals))

\* C18 (as claimed): exit_code is the first value that parses as an integer
\* among the attributes exitCode, exit_code, exit and then the top-level
\* exitCode, exit_code, exit; None, with the event still returned, if none does
C18_AttributesThenTopLevel ==
    parsed.kind # "pending" =>
        LET attrs == Get(Get(raw_event, "Actor"), "Attributes")
        IN /\ parsed.kind = "event"
           /\ parsed.ev.exit_code =
                 FirstParsable(<<Get(attrs, "exitCode"), Get(attrs, "exit_code"),
                                 Get(attrs, "exit"), Get(raw_event, "exitCode"),
                                 Get(raw_event, "exit_code"), Get(raw_event, "exit")>>)

\* ---- properties of the loop: cancellation, closures, unclassified errors ---

\* C15: once the flag is set, a loop starts no callback, opens no stream and
\* begins no sleep for a closed stream; an item the stream yields then ends the
\* loop, and so does the next test of the loop condition
C15_StopTakesPriority ==
    [][\A l \in Loops :
          stop_event =>
             /\ pc'[l] = "callback" => pc[l] = "callback"
             /\ pc'[l] = "open" => pc[l] = "open"
             /\ pc'[l] = "sleep_closed" => pc[l] = "sleep_closed"
             /\ handled'[l] <= handled[l]
             /\ pc[l] = "while" /\ pc'[l] # "while"
                   => pc'[l] = "done" /\ reason'[l] = "flag"
             /\ reason'[l] = "flag_item" /\ reason[l] # "flag_item"
                   => pc[l] = "next" /\ pc'[l] = "done"]_vars

\* the flag was set while the loop waited for an item; the stream yielded
\* one and the loop ended without passing it to the callback
C15_Witness ==
    \E l \in Loops :
        /\ stop_event
        /\ pc[l] = "done"
        /\ reason[l] = "flag_item"

\* C17 (as claimed): unclassified errors count against the retry ceiling: a
\* loop still running, whose errors since its last successful open were all
\* unclassified, has seen at most max_retries of them
C17_UnclassifiedCountsAgainstCeiling ==
    \A l \in Loops :
        max_retries # NoLimit /\ Alive(l) /\ hRec[l] = 0 => hUnc[l] <= max_retries

\* C16: a stream that ends without an error, the flag not set, is followed
\* by a sleep of the current backoff, which is initial_backoff, and changes
\* neither the retry counter nor the backoff, before or after the sleep; the
\* loop does not end on the retry ceiling because of it
C16_ClosureChangesNothing ==
    /\ [](\A l \in Loops :
            pc[l] = "sleep_closed"
               => SleepDuration(l) = initial_backoff /\ retries[l] = 0)
    /\ [][\A l \in Loops :
            /\ pc[l] = "next" /\ pc'[l] = "sleep_closed"
                  => retries'[l] = retries[l] /\ backoff'[l] = backoff[l]
            /\ pc[l] = "sleep_closed" /\ pc'[l] # "sleep_closed"
                  => /\ pc'[l] = "while"
                     /\ retries'[l] = retries[l]
                     /\ backoff'[l] = backoff[l]]_vars

\* with max_retries = 3, the fourth stream in a row has ended without an
\* error and the loop sleeps before it opens the next
C16_Witness ==
    \E l \in Loops :
        /\ max_retries = TestMaxRetries
        /\ closed[l] = TestMaxRetries + 1
        /\ pc[l] = "sleep_closed"

\* C14: send_event is called at most once for an item, and only with an event
\* parse_event returned; when the callback is over it has been called exactly
\* if parse_event returned an event; and however the callback ends, a failure
\* of the sink included, the loop goes on reading the same stream with its
\* retry counter and backoff unchanged
C14_PipelineDelivery ==
    /\ [](delivered <= 1)
    /\ [](cbpc = "send" \/ delivered = 1 => parsed.kind = "event")
    /\ [][\A l \in Loops :
            pc[l] = "callback" /\ pc'[l] # "callback"
               => /\ delivered' = 1 <=> parsed'.kind = "event"
                  /\ pc'[l] = "next"
                  /\ yielded'[l] = yielded[l]
                  /\ retries'[l] = retries[l]
                  /\ backoff'[l] = backoff[l]]_vars

\* the sink failed for item 1 of the stream, and item 2 has been parsed and
\* sent
C14_Witness ==
    \E l \in Loops :
        /\ pc[l] = "next"
        /\ sinkFailedAt = 1
        /\ handled[l] = 2
        /\ parsed.kind = "event"
        /\ delivered = 1

\* C24 (as claimed): the action of an event is the one its raw action gives
\* once trimmed and lower-cased, so that raw actions equal up to case and
\* surrounding whitespace give the same action; and normalizing the action of
\* an event again returns it unchanged
C24_CaseAndSpaceInsensitive ==
    parsed.kind = "event" =>
        LET raw_action == Get(raw_event, "Action")
        IN /\ parsed.ev.action =
                 normalize_action(Str(Lower(Strip(raw_action.v)))).val
           /\ normalize_action(parsed.ev.action).val = parsed.ev.action

\* ---- properties of the loop under any configuration ------------------------

\* C22: with max_retries >= 1, in a loop all of whose opens succeeded and
\* whose stream raised recoverable errors only, the retry counter never
\* exceeds 1, every sleep lasts initial_backoff, and the loop does not end on
\* the retry ceiling: it ends on the flag only
C22_ReadErrorsNeverReachCeiling ==
    \A l \in Loops :
        max_retries >= 1 /\ streak[l] # Tainted =>
            /\ retries[l] <= 1
            /\ Sleeping(l) => SleepDuration(l) = initial_backoff
            /\ reason[l] # "ceiling"
            /\ pc[l] = "done" => reason[l] \in FlagReasons /\ stop_event

\* with max_retries = 1, the stream has raised on its first read for the
\* third time in a row and the loop sleeps before it reconnects
C22_Witness ==
    \E l \in Loops :
        /\ max_retries = 1
        /\ streak[l] = MaxStreak
        /\ pc[l] = "sleep_error"
        /\ retries[l] = 1

WellConfigured ==
    /\ 0 < initial_backoff
    /\ initial_backoff <= max_backoff
    /\ backoff_factor >= 1

\* C23: with 0 < initial_backoff <= max_backoff and backoff_factor >= 1, the
\* backoff of a running loop lies between initial_backoff and max_backoff,
\* and so does every sleep; and the backoff never decreases except by the
\* reset of a successful open
C23_BackoffWithinBounds ==
    /\ [](WellConfigured =>
            \A l \in Loops :
                Alive(l) => /\ initial_backoff <= backoff[l]
                            /\ backoff[l] <= max_backoff)
    /\ [][WellConfigured =>
            \A l \in Loops :
                (/\ Alive(l)
                 /\ pc'[l] \notin {"unborn", "created", "done", "raised"}
                 /\ ~(pc[l] = "open" /\ pc'[l] = "next"))
                   => backoff'[l] >= backoff[l]]_vars

\* under a configuration other than the tests', the loop sleeps for
\* max_backoff, more than initial_backoff, after an unclassified error
C23_Witness ==
    \E l \in Loops :
        /\ WellConfigured
        /\ config # TestConfig
        /\ pc[l] = "sleep_unexpected"
        /\ initial_backoff < max_backoff
        /\ SleepDuration(l) = max_backoff


\* C21: once stop() has set the flag, a loop begins at most one more call in
\* total, of client.events() or of the handler: the one whose check of the
\* flag (line 84, line 94) came before stop() set it.
C21_AtMostOneCallAfterStop ==
    \A l \in Loops : late[l].opens + late[l].handlers <= 1

\* the loop passed line 94, stop() set the flag, the handler was called, and
\* the loop then left at its next check of the flag
C21_Witness ==
    \E l \in Loops :
        /\ late[l] = [opens |-> 0, handlers |-> 1]
        /\ pc[l] = "done"
        /\ reason[l] \in FlagReasons
        /\ stop_event

====
